---- MODULE Spec2Model ----
(***************************************************************************)
(* Model of the AppJail connector (pyinfra/connectors/appjail.py) and of   *)
(* the FreeBSD service / sysrc operations                                  *)
(* (pyinfra/operations/freebsd/service.py, sysrc.py).                      *)
(*                                                                         *)
(* One connector instance serves one host and its calls are sequential,    *)
(* so a call in flight is a position `pc` plus the call's locals `call`.   *)
(* What the controller's shell, the jail and the child processes answer    *)
(* is the environment: every answer is drawn with \E.                      *)
(***************************************************************************)
EXTENDS Integers, Sequences, FiniteSets, TLC

VARIABLES
    hostData,        \* host.data: jail, noclean, jail_user, host_user
    localConnected,  \* the inner LocalConnector has been connected
    jail,            \* self.jail (None until connect() has set it)
    pc,              \* position of the connector call in flight
    call,            \* locals of the connector call in flight / last made
    files,           \* staging temp files on the controller: name -> content
    dest,            \* content of the local destination sink of get_file
    trace,           \* what the current / last connector call did, in order
    result,          \* outcome of the last finished connector call
    facts,           \* host facts read by the operations, per jail argument
    opLast,          \* the last operation call: request, facts read, outcome
    repeat           \* the last operation call repeated the one before it

vars == <<hostData, localConnected, jail, pc, call, files, dest, trace, result,
          facts, opLast, repeat>>

connVars == <<hostData, localConnected, jail, pc, call, files, dest, trace, result>>
opVars == <<facts, opLast, repeat>>

\* ------------------------------------------------------------------ bounds

\* child exit codes are 0 .. MaxExit
MaxExit == 2
\* length of the `environment` list given to service, when one is given
MaxEnv == 2

\* ------------------------------------------------------------------ values

None == "<None>"

ExitCodes == 0 .. MaxExit

JailNames == {"j1", "j2"}
NocleanValues == {None, "False", "True"}
JailUsers == {None, "", "alice"}
HostUsers == {None, "", "bob"}
TempNames == {"tmp1", "tmp2"}
RemoteNames == {"r1", "r2"}
Contents == {"A", "B"}
JailRoots == {"/jails/j"}
ProbeErrors == {"no such jail", "appjail: not found"}
Stderrs == {"e1", "e2"}

\* Python truthiness of a host.data value
Truthy(v) == v \notin {None, "False", ""}

\* execution options of a call: `_success_exit_codes` given, a non-empty
\* collection of exit codes, or not given
NoOptions == [given |-> FALSE, codes |-> {}]
Options ==
    {NoOptions} \cup {[given |-> TRUE, codes |-> S] : S \in SUBSET ExitCodes \ {{}}}

\* Python values: None, a str (a sequence of characters; a word the code never
\* takes apart is written as one piece), a list, a StringCommand (its tokens).
PyNone == [t |-> "none", s |-> <<>>, l |-> <<>>]
Str(s) == [t |-> "str", s |-> s, l |-> <<>>]
List(l) == [t |-> "list", s |-> <<>>, l |-> l]
StringCommand(tokens) == [t |-> "cmd", s |-> <<>>, l |-> tokens]

\* A command token: a raw string, inserted as it is, or a QuoteString, whose
\* value is quoted when the command is serialized.
Raw(s) == [q |-> FALSE, v |-> Str(s)]
QuoteString(obj) == [q |-> TRUE, v |-> obj]

Commands == { <<Raw(<<"echo">>), Raw(<<"hoi">>)>>, <<Raw(<<"true">>)>> }

Ev(e, cmd, opts, msg) == [ev |-> e, cmd |-> cmd, opts |-> opts, msg |-> msg]

NoCall == [op |-> "none", command |-> <<>>, remote |-> None, src |-> None, opts |-> NoOptions,
           temp |-> None, root |-> None, status |-> FALSE, exit |-> 0,
           stderr |-> None, exc |-> None, excmsg |-> None, destBefore |-> None]

NoResult == [kind |-> "none", op |-> "none", exc |-> None, msg |-> None, ok |-> FALSE]
Returned(op, ok) == [kind |-> "return", op |-> op, exc |-> None, msg |-> None, ok |-> ok]
Raised(op, exc, msg) == [kind |-> "raise", op |-> op, exc |-> exc, msg |-> msg, ok |-> FALSE]

\* ------------------------------------------------- collaborators (not in src)

\* Control-Argument Extractor: the options the inner connector honours
extract_control_arguments(arguments) == arguments

\* Command Synthesizer: the shell invocation wrapper `sh -c <Quoted(inner)>`
make_unix_command_for_host(command) ==
    StringCommand(<<Raw(<<"sh">>), Raw(<<"-c">>), QuoteString(StringCommand(command))>>)

\* LocalConnector.run_shell_command: success is exit code in the success set
SuccessCodes(opts) == IF opts.given THEN opts.codes ELSE {0}
local_run_shell_command(opts, e) == e \in SuccessCodes(opts)

\* ------------------------------------------------------------ the connector

Append1(e) == Append(trace, e)

\* connect(), first statement: self.local.connect()
connect ==
    /\ pc = "idle"
    /\ jail = None
    /\ localConnected' = TRUE
    /\ call' = [NoCall EXCEPT !.op = "connect"]
    /\ trace' = <<Ev("local.connect", <<>>, NoOptions, None)>>
    /\ result' = NoResult
    /\ pc' = "connect_probe"
    /\ UNCHANGED <<hostData, jail, files, dest>>
    /\ UNCHANGED opVars

\* the status probe of connect(): "appjail status {0}".format(jail)
status_command(j) == <<Raw(<<"appjail">>), Raw(<<"status">>), Raw(<<j>>)>>

\* mutant: self.jail assigned before the probe
jail_before_probe(ok) == hostData.jail

\* self.jail after the probe of connect() has answered
jail_after_probe(ok) == IF ok THEN hostData.jail ELSE jail

\* connect(), the probe and what follows it
connect_probe ==
    /\ pc = "connect_probe"
    /\ \E ok \in BOOLEAN, m \in ProbeErrors :
        /\ trace' = Append1(Ev("local.shell", status_command(hostData.jail), NoOptions,
                               IF ok THEN None ELSE m))
        /\ jail' = jail_after_probe(ok)
        /\ result' = IF ok THEN Returned("connect", TRUE)
                           ELSE Raised("connect", "ConnectError", m)
    /\ pc' = "idle"
    /\ UNCHANGED <<hostData, localConnected, call, files, dest>>
    /\ UNCHANGED opVars

\* mutant: `if` where the code has `elif`
jexec_args_both_users(data, j, quoted_command) ==
    <<Raw(<<"appjail">>), Raw(<<"cmd">>), Raw(<<"jexec">>), Raw(<<j>>)>>
    \o (IF Truthy(data.noclean) THEN <<Raw(<<"-l">>)>> ELSE <<>>)
    \o (IF Truthy(data.jail_user)
            THEN <<Raw(<<"-U">>), Raw(<<data.jail_user>>)>> ELSE <<>>)
    \o (IF Truthy(data.host_user)
            THEN <<Raw(<<"-u">>), Raw(<<data.host_user>>)>> ELSE <<>>)
    \o <<Raw(<<"sh">>), Raw(<<"-c">>), quoted_command>>

\* the argument list run_shell_command builds around the quoted inner command
jexec_args(data, j, quoted_command) ==
    <<Raw(<<"appjail">>), Raw(<<"cmd">>), Raw(<<"jexec">>), Raw(<<j>>)>>
    \o (IF Truthy(data.noclean) THEN <<Raw(<<"-l">>)>> ELSE <<>>)
    \o (IF Truthy(data.jail_user)
            THEN <<Raw(<<"-U">>), Raw(<<data.jail_user>>)>>
        ELSE IF Truthy(data.host_user)
            THEN <<Raw(<<"-u">>), Raw(<<data.host_user>>)>>
        ELSE <<>>)
    \o <<Raw(<<"sh">>), Raw(<<"-c">>), quoted_command>>

\* mutant: the extracted control arguments are not passed on
run_shell_command_forward_bare(command, arguments) ==
    [cmd |-> jexec_args(hostData, jail,
                        QuoteString(make_unix_command_for_host(command))),
     opts |-> NoOptions]

\* what run_shell_command hands to self.local.run_shell_command
run_shell_command_forward(command, arguments) ==
    [cmd |-> jexec_args(hostData, jail,
                        QuoteString(make_unix_command_for_host(command))),
     opts |-> extract_control_arguments(arguments)]

run_shell_command ==
    /\ pc = "idle"
    /\ \E command \in Commands, arguments \in Options, e \in ExitCodes :
        /\ call' = [NoCall EXCEPT !.op = "run_shell_command", !.command = command,
                                  !.opts = arguments, !.exit = e]
        /\ IF jail = None
             THEN /\ trace' = <<>>
                  /\ result' = Raised("run_shell_command", "AttributeError", None)
             ELSE LET fwd == run_shell_command_forward(command, arguments) IN
                  /\ trace' = <<Ev("local.run_shell_command", fwd.cmd, fwd.opts, None)>>
                  /\ result' = Returned("run_shell_command",
                                        local_run_shell_command(fwd.opts, e))
    /\ UNCHANGED <<hostData, localConnected, jail, pc, files, dest>>
    /\ UNCHANGED opVars

\* mkstemp(): a fresh, empty file whose name no existing file has
mkstemp(t) == [x \in DOMAIN files \cup {t} |-> IF x = t THEN "" ELSE files[x]]

\* mutant: the removal follows the try block instead of being its finally
os_remove_unless_raised(fs, t) ==
    IF call.exc # None THEN fs ELSE [x \in DOMAIN fs \ {t} |-> fs[x]]

\* os.remove(temp_filename) of the finally blocks
os_remove(fs, t) == [x \in DOMAIN fs \ {t} |-> fs[x]]

\* "appjail cmd local {0} pwd".format(self.jail)
pwd_command(j) ==
    <<Raw(<<"appjail">>), Raw(<<"cmd">>), Raw(<<"local">>), Raw(<<j>>), Raw(<<"pwd">>)>>

\* mutant: the call's control arguments go with the copy
copy_arguments_forwarded(arguments) == extract_control_arguments(arguments)

\* the options put_file / get_file pass on with the copy: print flags only
copy_arguments(arguments) == NoOptions

\* StringCommand("cp", temp_filename, f"{jail_directory}/{remote_filename}")
put_file_cp(t, root, remote) ==
    <<Raw(<<"cp">>), Raw(<<t>>), Raw(<<root, "/", remote>>)>>

\* StringCommand("cp", f"{jail_directory}/{remote_filename}", temp_filename)
get_file_cp(t, root, remote) ==
    <<Raw(<<"cp">>), Raw(<<root, "/", remote>>), Raw(<<t>>)>>

\* after the finally block: a pending exception propagates; otherwise
\* `if not status: raise IOError(output.stderr)`, else `return status`
transfer_outcome(c) ==
    IF c.exc # None THEN Raised(c.op, c.exc, c.excmsg)
    ELSE IF ~c.status THEN Raised(c.op, "IOError", c.stderr)
    ELSE Returned(c.op, c.status)

\* the jail-root probe shared by put_file and get_file
root_probe(next, finally) ==
    IF jail = None
      THEN /\ call' = [call EXCEPT !.exc = "AttributeError"]
           /\ trace' = trace
           /\ pc' = finally
      ELSE \/ \E root \in JailRoots :
                /\ call' = [call EXCEPT !.root = root]
                /\ trace' = Append1(Ev("local.shell", pwd_command(jail), NoOptions, None))
                /\ pc' = next
           \/ \E m \in ProbeErrors :
                /\ call' = [call EXCEPT !.exc = "PyinfraError", !.excmsg = m]
                /\ trace' = Append1(Ev("local.shell", pwd_command(jail), NoOptions, m))
                /\ pc' = finally

\* the finally block and the statements after it, shared by put_file and get_file
finally_and_after(at) ==
    /\ pc = at
    /\ files' = os_remove(files, call.temp)
    /\ trace' = Append1(Ev("os.remove", <<Raw(<<call.temp>>)>>, NoOptions, None))
    /\ result' = transfer_outcome(call)
    /\ pc' = "idle"
    /\ UNCHANGED <<hostData, localConnected, jail, call, dest>>
    /\ UNCHANGED opVars

\* put_file: _, temp_filename = mkstemp()
put_file ==
    /\ pc = "idle"
    /\ \E src \in Contents, remote \in RemoteNames, arguments \in Options,
          t \in TempNames \ DOMAIN files :
        /\ files' = mkstemp(t)
        /\ call' = [NoCall EXCEPT !.op = "put_file", !.src = src, !.remote = remote,
                                  !.opts = arguments, !.temp = t]
        /\ trace' = <<Ev("mkstemp", <<Raw(<<t>>)>>, NoOptions, None)>>
    /\ result' = NoResult
    /\ pc' = "put_write"
    /\ UNCHANGED <<hostData, localConnected, jail, dest>>
    /\ UNCHANGED opVars

\* mutant: an error of the read / write step is swallowed
put_file_write_swallowed ==
    /\ pc = "put_write"
    /\ \/ /\ files' = [files EXCEPT ![call.temp] = call.src]
          /\ trace' = Append1(Ev("write", <<Raw(<<call.temp>>)>>, NoOptions, None))
       \/ UNCHANGED <<files, trace>>
    /\ pc' = "put_probe"
    /\ UNCHANGED <<hostData, localConnected, jail, dest, result, call>>
    /\ UNCHANGED opVars

\* put_file: read the source and write it to the temp file
put_file_write ==
    /\ pc = "put_write"
    /\ \/ /\ files' = [files EXCEPT ![call.temp] = call.src]
          /\ trace' = Append1(Ev("write", <<Raw(<<call.temp>>)>>, NoOptions, None))
          /\ pc' = "put_probe"
          /\ call' = call
       \/ /\ call' = [call EXCEPT !.exc = "OSError", !.excmsg = "read"]
          /\ pc' = "put_finally"
          /\ UNCHANGED <<files, trace>>
    /\ UNCHANGED <<hostData, localConnected, jail, dest, result>>
    /\ UNCHANGED opVars

put_file_probe ==
    /\ pc = "put_probe"
    /\ root_probe("put_copy", "put_finally")
    /\ UNCHANGED <<hostData, localConnected, jail, files, dest, result>>
    /\ UNCHANGED opVars

\* put_file: the copy through the inner connector
put_file_copy ==
    /\ pc = "put_copy"
    /\ \E e \in ExitCodes, err \in Stderrs :
        LET opts == copy_arguments(call.opts) IN
        /\ call' = [call EXCEPT !.exit = e, !.stderr = err,
                                !.status = local_run_shell_command(opts, e)]
        /\ trace' = Append1(Ev("local.run_shell_command",
                               put_file_cp(call.temp, call.root, call.remote), opts, None))
    /\ pc' = "put_finally"
    /\ UNCHANGED <<hostData, localConnected, jail, files, dest, result>>
    /\ UNCHANGED opVars

put_file_finally == finally_and_after("put_finally")

\* get_file: _, temp_filename = mkstemp()
get_file ==
    /\ pc = "idle"
    /\ \E remote \in RemoteNames, arguments \in Options, t \in TempNames \ DOMAIN files :
        /\ files' = mkstemp(t)
        /\ call' = [NoCall EXCEPT !.op = "get_file", !.remote = remote,
                                  !.opts = arguments, !.temp = t, !.destBefore = dest]
        /\ trace' = <<Ev("mkstemp", <<Raw(<<t>>)>>, NoOptions, None)>>
    /\ result' = NoResult
    /\ pc' = "get_probe"
    /\ UNCHANGED <<hostData, localConnected, jail, dest>>
    /\ UNCHANGED opVars

get_file_probe ==
    /\ pc = "get_probe"
    /\ root_probe("get_copy", "get_finally")
    /\ UNCHANGED <<hostData, localConnected, jail, files, dest, result>>
    /\ UNCHANGED opVars

\* where get_file goes once the copy has returned
after_get_copy(status) == "get_readwrite"

\* get_file: the copy through the inner connector; a successful cp fills the
\* temp file with the remote content, a failed one leaves it empty or partial
get_file_copy ==
    /\ pc = "get_copy"
    /\ \E e \in ExitCodes, err \in Stderrs, c \in Contents, partial \in BOOLEAN :
        LET opts == copy_arguments(call.opts)
            status == local_run_shell_command(opts, e) IN
        /\ call' = [call EXCEPT !.exit = e, !.stderr = err, !.status = status]
        /\ files' = [files EXCEPT ![call.temp] = IF e = 0 \/ partial THEN c ELSE ""]
        /\ trace' = Append1(Ev("local.run_shell_command",
                               get_file_cp(call.temp, call.root, call.remote), opts, None))
        /\ pc' = after_get_copy(status)
    /\ UNCHANGED <<hostData, localConnected, jail, dest, result>>
    /\ UNCHANGED opVars

\* get_file: open the temp file and the destination, read, write
get_file_readwrite ==
    /\ pc = "get_readwrite"
    /\ \/ /\ dest' = files[call.temp]
          /\ trace' = Append1(Ev("write dest", <<>>, NoOptions, None))
          /\ call' = call
       \/ \* get_file_io(filename_or_io, "wb") raises: the destination is not opened
          /\ dest' = dest
          /\ trace' = trace
          /\ call' = [call EXCEPT !.exc = "OSError", !.excmsg = "open"]
       \/ \* temp_f.read() raises once the destination is open for writing
          /\ dest' = ""
          /\ trace' = Append1(Ev("open dest", <<>>, NoOptions, None))
          /\ call' = [call EXCEPT !.exc = "UnicodeDecodeError", !.excmsg = "read"]
    /\ pc' = "get_finally"
    /\ UNCHANGED <<hostData, localConnected, jail, files, result>>
    /\ UNCHANGED opVars

get_file_finally == finally_and_after("get_finally")

\* ----------------------------------------------------------- the operations

\* what the code compares `state` / `command` with, and one value outside each
ServiceStates == {"SRV_STARTED", "SRV_STOPPED", "SRV_RESTARTED", "SRV_RELOADED",
                  "SRV_CUSTOM"}
SysrcCommands == {"SYSRC_ADD", "SYSRC_SUB", "SYSRC_SET", "SYSRC_DEL"}
Outside == "not a member"

SrvName == Str(<<"sshd">>)
Parameter == Str(<<"p">>)
JailArgs == {PyNone, Str(<<"j">>)}
CustomCommands == {PyNone, Str(<<"o", "n">>), List(<<Str(<<"a">>), Str(<<"b">>)>>)}
EnvNames == <<"A=1", "B=2", "C=3">>
EnvVar(i) == Str(<<EnvNames[((i - 1) % Len(EnvNames)) + 1]>>)
Environments == {PyNone, List([i \in 1 .. MaxEnv |-> EnvVar(i)])}
Values == {Str(<<>>), Str(<<"Y">>)}
\* the Sysrc fact: the parameter's value, empty when it has none
RcValues == Values

\* Python truthiness
PyTruthy(v) == ~(v.t = "none" \/ (v.t = "str" /\ v.s = <<>>) \/ (v.t = "list" /\ v.l = <<>>))

\* outcome of an operation call
OpNoop(msg) == [kind |-> "noop", cmd |-> <<>>, exc |-> None, msg |-> msg]
OpYield(args) == [kind |-> "yield", cmd |-> args, exc |-> None, msg |-> None]
OpRaise(exc, msg) == [kind |-> "raise", cmd |-> <<>>, exc |-> exc, msg |-> msg]

\* the facts of one (srvname / parameter, jail) as host.get_fact returns them
FactsOf(j) == [script |-> j \in facts.script,
               running |-> j \in facts.running,
               rc |-> facts.rc[j]]

\* service: args = ["service"] and the -v, -j, -E options
service_args(verbose, j, environment) ==
    <<Raw(<<"service">>)>>
    \o (IF verbose THEN <<Raw(<<"-v">>)>> ELSE <<>>)
    \o (IF j # PyNone THEN <<Raw(<<"-j">>), QuoteString(j)>> ELSE <<>>)
    \o (IF environment # PyNone
          THEN [i \in 1 .. 2 * Len(environment.l) |->
                    IF i % 2 = 1 THEN Raw(<<"-E">>)
                                 ELSE QuoteString(environment.l[i \div 2])]
          ELSE <<>>)

\* mutant: the status fact is not looked at
service_started_unchecked(args, srvname, running) ==
    OpYield(args \o <<QuoteString(srvname), Raw(<<"start">>)>>)

\* service, state == SRV_STARTED
service_started(args, srvname, running) ==
    IF running THEN OpNoop("already started")
    ELSE OpYield(args \o <<QuoteString(srvname), Raw(<<"start">>)>>)

\* service, state == SRV_STOPPED
service_stopped(args, srvname, running) ==
    IF ~running THEN OpNoop("already stopped")
    ELSE OpYield(args \o <<QuoteString(srvname), Raw(<<"stop">>)>>)

\* service, state == SRV_CUSTOM:
\*     if not isinstance(command, str): command = [command]
\*     args.extend((QuoteString(c) for c in command))
\* a str is iterated character by character, anything else is wrapped whole
service_custom(args, srvname, command) ==
    OpYield(args \o <<QuoteString(srvname)>>
            \o (IF command.t = "str"
                  THEN [i \in 1 .. Len(command.s) |-> QuoteString(Str(<<command.s[i]>>))]
                  ELSE <<QuoteString(command)>>))

\* mutant: a state outside the enumeration is let through as a no-op
service_invalid_ignored == OpNoop("Invalid service command!")

\* service, the else branch
service_invalid == OpRaise("OperationValueError", "Invalid service command!")

\* the service operation
service_result(srvname, j, state, command, environment, verbose, f) ==
    IF ~f.script THEN OpNoop("Cannot find rc(8) script")
    ELSE LET args == service_args(verbose, j, environment) IN
         CASE state = "SRV_STARTED" -> service_started(args, srvname, f.running)
           [] state = "SRV_STOPPED" -> service_stopped(args, srvname, f.running)
           [] state = "SRV_RESTARTED" ->
                OpYield(args \o <<QuoteString(srvname), Raw(<<"restart">>)>>)
           [] state = "SRV_RELOADED" ->
                OpYield(args \o <<QuoteString(srvname), Raw(<<"reload">>)>>)
           [] state = "SRV_CUSTOM" -> service_custom(args, srvname, command)
           [] OTHER -> service_invalid

\* sysrc: the tokens after the command has been recognised
sysrc_args(parameter, sign, value, j) ==
    <<Raw(<<"sysrc">>), Raw(<<"-i">>)>>
    \o (IF j # PyNone THEN <<Raw(<<"-j">>), QuoteString(j)>> ELSE <<>>)
    \o <<Raw(<<"--">>), QuoteString(Str(parameter.s \o sign \o value.s))>>

\* the sysrc operation
sysrc_result(parameter, value, j, command, overwrite, f) ==
    CASE command = "SYSRC_DEL" ->
            IF ~PyTruthy(f.rc) THEN OpNoop("Cannot find sysrc(8) parameter")
            ELSE OpYield(sysrc_args(parameter, <<"=">>, value, j))
      [] command = "SYSRC_SET" ->
            IF ~overwrite /\ PyTruthy(f.rc) THEN OpNoop("already set")
            ELSE OpYield(sysrc_args(parameter, <<"=">>, value, j))
      [] command = "SYSRC_ADD" -> OpYield(sysrc_args(parameter, <<"+", "=">>, value, j))
      [] command = "SYSRC_SUB" -> OpYield(sysrc_args(parameter, <<"-", "=">>, value, j))
      [] OTHER -> OpRaise("OperationValueError", "Invalid sysrc command!")

\* what a yielded command does to the host once it has run
service_effect(state, j) ==
    CASE state \in {"SRV_STARTED", "SRV_RESTARTED"} ->
            [facts EXCEPT !.running = @ \cup {j}]
      [] state = "SRV_STOPPED" -> [facts EXCEPT !.running = @ \ {j}]
      [] OTHER -> facts

sysrc_effect(command, value, j) ==
    CASE command = "SYSRC_SET" -> [facts EXCEPT !.rc[j] = value]
      [] command = "SYSRC_ADD" -> [facts EXCEPT !.rc[j] = IF PyTruthy(@) THEN @ ELSE value]
      [] command = "SYSRC_SUB" -> [facts EXCEPT !.rc[j] = IF @ = value THEN Str(<<>>) ELSE @]
      [] OTHER -> [facts EXCEPT !.rc[j] = Str(<<>>)]

Request(o) == <<o.op, o.jail, o.state, o.command, o.environment, o.verbose,
                o.sysrc_command, o.value, o.overwrite>>

OpCall(op, j, state, command, environment, verbose, sysrc_command, value, overwrite,
       f, r, effect) ==
    [op |-> op, jail |-> j, state |-> state, command |-> command,
     environment |-> environment, verbose |-> verbose,
     sysrc_command |-> sysrc_command, value |-> value,
     overwrite |-> overwrite, pre |-> f, kind |-> r.kind, cmd |-> r.cmd,
     exc |-> r.exc, effect |-> effect]

NoOp == OpCall("none", PyNone, "-", PyNone, PyNone, FALSE, "-", PyNone, FALSE,
               [script |-> FALSE, running |-> FALSE, rc |-> Str(<<>>)], OpNoop(None), FALSE)

\* this call makes the request the call before it made, and that call's
\* command ran
Repeats(o) == Request(o) = Request(opLast) /\ opLast.kind = "yield" /\ opLast.effect

\* `command` is read in the SRV_CUSTOM branch alone
CommandsFor(state) ==
    IF state \in {"SRV_CUSTOM", Outside} THEN CustomCommands ELSE {PyNone}

\* whether a yielded command runs or fails is the host's choice
Ran(r) == IF r.kind = "yield" THEN BOOLEAN ELSE {FALSE}

\* one call of the service operation, and the run of what it yields
service ==
    /\ \E j \in JailArgs, state \in ServiceStates \cup {Outside},
          environment \in Environments, verbose \in BOOLEAN :
        \E command \in CommandsFor(state), f \in {FactsOf(j)} :
        \E r \in {service_result(SrvName, j, state, command, environment, verbose, f)} :
        \E ran \in Ran(r) :
        \E o \in {OpCall("service", j, state, command, environment, verbose,
                         "-", PyNone, FALSE, f, r, ran)} :
            /\ opLast' = o
            /\ repeat' = Repeats(o)
            /\ facts' = IF ran THEN service_effect(state, j) ELSE facts
    /\ UNCHANGED connVars

\* one call of the sysrc operation, and the run of what it yields
sysrc ==
    /\ \E j \in JailArgs, command \in SysrcCommands \cup {Outside}, value \in Values,
          overwrite \in BOOLEAN :
        \E f \in {FactsOf(j)} :
        \E r \in {sysrc_result(Parameter, value, j, command, overwrite, f)} :
        \E ran \in Ran(r) :
        \E o \in {OpCall("sysrc", j, "-", PyNone, PyNone, FALSE,
                         command, value, overwrite, f, r, ran)} :
            /\ opLast' = o
            /\ repeat' = Repeats(o)
            /\ facts' = IF ran THEN sysrc_effect(command, value, j) ELSE facts
    /\ UNCHANGED connVars

\* a service runs only where its rc script exists
HostFacts ==
    {f \in [script : SUBSET JailArgs, running : SUBSET JailArgs, rc : [JailArgs -> RcValues]] :
        f.running \subseteq f.script}

\* --------------------------------------------------------- specifications

HostDatas == [jail : JailNames, noclean : NocleanValues,
              jail_user : JailUsers, host_user : HostUsers]

\* put_file and get_file read no host data but the jail name
TransferHostDatas ==
    {h \in HostDatas : h.noclean = None /\ h.jail_user = None /\ h.host_user = None}

ConnInit(datas) ==
    /\ hostData \in datas
    /\ localConnected = FALSE
    /\ jail = None
    /\ pc = "idle"
    /\ call = NoCall
    /\ files = <<>>
    /\ dest = "old"
    /\ trace = <<>>
    /\ result = NoResult

OpsIdle ==
    /\ facts = [script |-> {}, running |-> {}, rc |-> [j \in JailArgs |-> Str(<<>>)]]
    /\ opLast = NoOp
    /\ repeat = FALSE

\* connecting and running commands, over every host data
Init == ConnInit(HostDatas) /\ OpsIdle

Next ==
    \/ connect
    \/ connect_probe
    \/ run_shell_command

Spec == Init /\ [][Next]_vars

\* connecting and transferring files
TransferInit == ConnInit(TransferHostDatas) /\ OpsIdle

TransferNext ==
    \/ connect
    \/ connect_probe
    \/ put_file
    \/ put_file_write
    \/ put_file_probe
    \/ put_file_copy
    \/ put_file_finally
    \/ get_file
    \/ get_file_probe
    \/ get_file_copy
    \/ get_file_readwrite
    \/ get_file_finally

TransferSpec == TransferInit /\ [][TransferNext]_vars

\* the operations, on every host
OpsInit ==
    /\ ConnInit({[jail |-> "j1", noclean |-> None, jail_user |-> None, host_user |-> None]})
    /\ facts \in HostFacts
    /\ opLast = NoOp
    /\ repeat = FALSE

OpsNext ==
    \/ service
    \/ sysrc

OpsSpec == OpsInit /\ [][OpsNext]_vars

\* ------------------------------------------------------- connector properties

Finished(op) == pc = "idle" /\ result.op = op /\ result.kind # "none"
Events == [i \in 1 .. Len(trace) |-> trace[i].ev]
CopyIssued == \E i \in 1 .. Len(trace) : trace[i].ev = "local.run_shell_command"

\* C1: once put_file or get_file has returned or raised, on whatever path, the
\* staging temp file that call created no longer exists.
C1_TempFileRemoved ==
    (Finished("put_file") \/ Finished("get_file")) => call.temp \notin DOMAIN files

\* a get_file whose read step raised has ended, and no temp file is left
C1_Witness ==
    /\ Finished("get_file")
    /\ result.exc = "UnicodeDecodeError"
    /\ DOMAIN files = {}

\* the success set the options of a call declare: {0} when none is passed
DeclaredSuccess(opts) == IF opts.given THEN opts.codes ELSE {0}

C3_AsClaimed ==
    ((Finished("put_file") \/ Finished("get_file")) /\ CopyIssued /\ call.exc = None) =>
        IF call.exit \in DeclaredSuccess(call.opts)
          THEN result.kind = "return" /\ result.ok
          ELSE result = Raised(call.op, "IOError", call.stderr)

\* C3 amended: the copy runs with the default success set whatever the call's
\* options say: exit code 0 returns true, any other raises IOError with the
\* copy's stderr; in get_file an error of the read / write step, which runs
\* before the status is looked at, propagates instead.
C3_DefaultSuccessSet ==
    ((Finished("put_file") \/ Finished("get_file")) /\ CopyIssued) =>
        /\ trace[4].opts = NoOptions
        /\ IF call.exc # None
             THEN call.op = "get_file" /\ result = Raised(call.op, call.exc, call.excmsg)
           ELSE IF call.exit = 0
             THEN result.kind = "return" /\ result.ok
           ELSE result = Raised(call.op, "IOError", call.stderr)

\* put_file was given success set {1}, the copy exited 1, IOError was raised
C3_Witness ==
    /\ Finished("put_file")
    /\ CopyIssued
    /\ call.opts = [given |-> TRUE, codes |-> {1}]
    /\ call.exit = 1
    /\ result = Raised("put_file", "IOError", call.stderr)

\* C4: connect connects the inner connector before it probes
\* `appjail status <jail>`; a failed probe raises ConnectError with the probe
\* error's message and leaves self.jail unset; self.jail is set, to the host's
\* jail name, only by a probe that succeeded.
C4_State ==
    /\ pc = "connect_probe" =>
            /\ localConnected
            /\ jail = None
            /\ Events = <<"local.connect">>
    /\ Finished("connect") =>
            /\ Events = <<"local.connect", "local.shell">>
            /\ trace[2].cmd = <<Raw(<<"appjail">>), Raw(<<"status">>), Raw(<<hostData.jail>>)>>
            /\ IF trace[2].msg # None
                 THEN result = Raised("connect", "ConnectError", trace[2].msg) /\ jail = None
                 ELSE result.kind = "return" /\ jail = hostData.jail
    /\ jail # None => jail = hostData.jail /\ localConnected

C4_Step ==
    jail' # jail =>
        /\ pc = "connect_probe"
        /\ jail = None
        /\ jail' = hostData.jail
        /\ trace'[Len(trace')].ev = "local.shell"
        /\ trace'[Len(trace')].msg = None

C4_ConnectOrder == []C4_State /\ [][C4_Step]_vars

\* the probe failed: ConnectError, and still no target jail
C4_Witness ==
    /\ Finished("connect")
    /\ result.exc = "ConnectError"
    /\ result.msg = "no such jail"
    /\ jail = None

Has(cmd, flag) == \E i \in 1 .. Len(cmd) : cmd[i] = Raw(<<flag>>)
FlagWith(cmd, flag, arg) ==
    \E i \in 1 .. Len(cmd) - 1 : cmd[i] = Raw(<<flag>>) /\ cmd[i + 1] = Raw(<<arg>>)
Count(cmd, P(_)) == Cardinality({i \in 1 .. Len(cmd) : P(cmd[i])})
IsQuoted(tok) == tok.q
IsSet(v) == v \notin {None, "False", ""}

\* C5: the command forwarded to the inner connector is
\* appjail cmd jexec <jail> [-l] [-U <jail_user> | -u <host_user>] sh -c <inner>:
\* -l iff noclean is set, -U <jail_user> iff jail_user is set, -u <host_user>
\* iff jail_user is not set and host_user is, never both user flags, and the
\* synthesized inner command is the last token, the only quoted one.
C5_JexecShape ==
    (Finished("run_shell_command") /\ result.kind = "return") =>
        LET cmd == trace[1].cmd
            n == Len(cmd)
            l == IF IsSet(hostData.noclean) THEN 1 ELSE 0
            u == IF IsSet(hostData.jail_user) \/ IsSet(hostData.host_user) THEN 2 ELSE 0
        IN  /\ n = 4 + l + u + 3
            /\ SubSeq(cmd, 1, 4) = <<Raw(<<"appjail">>), Raw(<<"cmd">>),
                                     Raw(<<"jexec">>), Raw(<<hostData.jail>>)>>
            /\ Has(cmd, "-l") <=> IsSet(hostData.noclean)
            /\ Has(cmd, "-l") => cmd[5] = Raw(<<"-l">>)
            /\ Has(cmd, "-U") <=> IsSet(hostData.jail_user)
            /\ Has(cmd, "-U") => FlagWith(cmd, "-U", hostData.jail_user)
            /\ Has(cmd, "-u") <=> (~IsSet(hostData.jail_user) /\ IsSet(hostData.host_user))
            /\ Has(cmd, "-u") => FlagWith(cmd, "-u", hostData.host_user)
            /\ ~(Has(cmd, "-U") /\ Has(cmd, "-u"))
            /\ cmd[n - 2] = Raw(<<"sh">>)
            /\ cmd[n - 1] = Raw(<<"-c">>)
            /\ cmd[n].q
            /\ cmd[n].v = StringCommand(<<Raw(<<"sh">>), Raw(<<"-c">>),
                                          QuoteString(StringCommand(call.command))>>)
            /\ Count(cmd, IsQuoted) = 1

\* both users and noclean are set: -l and -U are there, -u is not
C5_Witness ==
    /\ Finished("run_shell_command")
    /\ result.kind = "return"
    /\ hostData.noclean = "True"
    /\ hostData.jail_user = "alice"
    /\ hostData.host_user = "bob"
    /\ Len(trace[1].cmd) = 10

PutOrders ==
    { <<"mkstemp">>,
      <<"mkstemp", "write">>,
      <<"mkstemp", "write", "local.shell">>,
      <<"mkstemp", "write", "local.shell", "local.run_shell_command">>,
      <<"mkstemp", "write", "local.shell", "local.run_shell_command", "os.remove">>,
      <<"mkstemp", "os.remove">>,
      <<"mkstemp", "write", "os.remove">>,
      <<"mkstemp", "write", "local.shell", "os.remove">> }

\* C9: in every put_file call the source content is written in full to the
\* fresh temp file, then the jail root is asked for with
\* `appjail cmd local <jail> pwd`, then exactly one copy
\* `cp <tempfile> <jailRoot>/<remote_filename>` goes through the inner
\* connector, and the temp file is removed only once that copy has returned;
\* no copy is issued when the write or the root probe fails.
C9_PutFileOrder ==
    call.op = "put_file" =>
        /\ Events \in PutOrders
        /\ (Len(trace) >= 3 /\ trace[3].ev = "local.shell") =>
              trace[3].cmd = <<Raw(<<"appjail">>), Raw(<<"cmd">>), Raw(<<"local">>),
                               Raw(<<jail>>), Raw(<<"pwd">>)>>
        /\ CopyIssued =>
              /\ trace[3].msg = None
              /\ call.exc = None
              /\ trace[4].cmd = <<Raw(<<"cp">>), Raw(<<call.temp>>),
                                  Raw(<<call.root, "/", call.remote>>)>>
        /\ pc \in {"put_probe", "put_copy"} =>
              call.temp \in DOMAIN files /\ files[call.temp] = call.src
        /\ (Finished("put_file") /\ result.kind = "return") => Len(trace) = 5

\* a put_file that went through all five steps and returned
C9_Witness ==
    /\ Finished("put_file")
    /\ result.kind = "return"
    /\ Events = <<"mkstemp", "write", "local.shell", "local.run_shell_command", "os.remove">>

\* C10 as claimed: a get_file whose copy exits outside the success set raises
\* the transfer error and leaves the destination as it was, never opened.
C10_DestinationUntouched ==
    (Finished("get_file") /\ CopyIssued /\ ~call.status) =>
        /\ result = Raised("get_file", "IOError", call.stderr)
        /\ dest = call.destBefore
        /\ \A i \in 1 .. Len(trace) : trace[i].ev \notin {"open dest", "write dest"}

\* ------------------------------------------------------ operation properties

\* the request of the last call is for a state that held when it was made
AlreadyHolds ==
    \/ opLast.op = "service" /\ opLast.state = "SRV_STARTED" /\ opLast.pre.running
    \/ opLast.op = "service" /\ opLast.state = "SRV_STOPPED" /\ ~opLast.pre.running
    \/ /\ opLast.op = "sysrc"
       /\ opLast.sysrc_command = "SYSRC_SET"
       /\ ~opLast.overwrite
       /\ PyTruthy(opLast.pre.rc)

\* the request of the last call is one whose command, once run, makes the
\* requested state hold (an empty value leaves the parameter without a value)
SettlingRequest ==
    \/ opLast.op = "service" /\ opLast.state \in {"SRV_STARTED", "SRV_STOPPED"}
    \/ /\ opLast.op = "sysrc"
       /\ opLast.sysrc_command = "SYSRC_SET"
       /\ ~opLast.overwrite
       /\ PyTruthy(opLast.value)

\* C6: a request for a state that already holds yields no command and is a
\* no-op, not an error: service SRV_STARTED on a running service, service
\* SRV_STOPPED on one that is not running, sysrc SYSRC_SET without overwrite
\* on a parameter that has a value; so the second of two such requests in a
\* row, the first having taken effect, yields nothing.
C6_IdempotentNoop ==
    /\ AlreadyHolds => opLast.kind = "noop" /\ opLast.cmd = <<>> /\ ~opLast.effect
    /\ (repeat /\ SettlingRequest) => opLast.kind = "noop" /\ opLast.cmd = <<>>

\* service SRV_STARTED was applied, its start command ran, and the same
\* request made again was a no-op
C6_Witness ==
    /\ repeat
    /\ opLast.op = "service"
    /\ opLast.state = "SRV_STARTED"
    /\ opLast.pre.script
    /\ opLast.pre.running
    /\ opLast.kind = "noop"

InvalidRequest ==
    \/ opLast.op = "service" /\ opLast.state \notin ServiceStates
    \/ opLast.op = "sysrc" /\ opLast.sysrc_command \notin SysrcCommands

\* C7 as claimed: whatever the other arguments and the host facts, a state
\* outside ServiceStates and a command outside SysrcCommands fail with
\* OperationValueError and yield no command.
C7_AsClaimed ==
    InvalidRequest =>
        opLast.kind = "raise" /\ opLast.exc = "OperationValueError" /\ opLast.cmd = <<>>

\* C7 amended: sysrc with a command outside SysrcCommands always fails with
\* OperationValueError; service with a state outside ServiceStates fails with
\* it when the rc script exists and is a no-op when the script is missing;
\* neither yields a command.
C7_InvalidValue ==
    InvalidRequest =>
        /\ opLast.cmd = <<>>
        /\ opLast.kind # "yield"
        /\ IF opLast.op = "service" /\ ~opLast.pre.script
             THEN opLast.kind = "noop"
             ELSE opLast.kind = "raise" /\ opLast.exc = "OperationValueError"

\* service was given a state outside the enumeration where the rc script
\* exists, and raised
C7_Witness ==
    /\ opLast.op = "service"
    /\ opLast.state = Outside
    /\ opLast.pre.script
    /\ opLast.kind = "raise"
    /\ opLast.exc = "OperationValueError"

\* service [-v] [-j <jail>] [-E <var>]... as the docstring gives it
ServicePrefix(o) ==
    <<Raw(<<"service">>)>>
    \o (IF o.verbose THEN <<Raw(<<"-v">>)>> ELSE <<>>)
    \o (IF o.jail.t # "none" THEN <<Raw(<<"-j">>), QuoteString(o.jail)>> ELSE <<>>)
    \o (IF o.environment.t = "list"
          THEN [i \in 1 .. 2 * Len(o.environment.l) |->
                    IF i % 2 = 1 THEN Raw(<<"-E">>)
                                 ELSE QuoteString(o.environment.l[i \div 2])]
          ELSE <<>>)

\* C8: with the rc script there and state SRV_CUSTOM, service yields
\* service [-v] [-j <jail>] [-E <var>]... <srvname> <command...>, a command
\* given as one string being one quoted token holding the whole string, a
\* command given as a list being one quoted token per element, in order.
C8_CustomCommandTokens ==
    (/\ opLast.op = "service"
     /\ opLast.state = "SRV_CUSTOM"
     /\ opLast.pre.script
     /\ opLast.command.t \in {"str", "list"}) =>
        /\ opLast.kind = "yield"
        /\ opLast.cmd = ServicePrefix(opLast) \o <<QuoteString(SrvName)>>
                        \o (IF opLast.command.t = "str"
                              THEN <<QuoteString(opLast.command)>>
                              ELSE [i \in 1 .. Len(opLast.command.l) |->
                                        QuoteString(opLast.command.l[i])])

====
